---- MODULE Spec2Model ----
(***************************************************************************)
(* Shift generation and constraint engine of the shift-management system.  *)
(*                                                                         *)
(* Two deployment profiles of the ShiftManagement component are modelled:  *)
(*   "fixed"   - src/unnamed/part_003: two workers per day, patterns in    *)
(*               rotation, store errors of the insert are thrown.          *)
(*   "weekday" - src/unnamed/part_002: headcount by day of week, patterns  *)
(*               by role and index parity, no store result is inspected.   *)
(*                                                                         *)
(* Dates are the strings YYYY-MM-DD of the source, written as the integer  *)
(* YYYYMMDD: both orders (string comparison in the store's range filters,  *)
(* integer comparison here) agree on zero-padded dates.  A month string    *)
(* YYYY-MM is the integer YYYYMM.                                          *)
(* The role and pattern names of the source are Japanese strings; they are *)
(* written here as "fulltime" (jokin), "parttime", "early" (hayaban),      *)
(* "late" (osoban), "part1", "part2".                                      *)
(***************************************************************************)
EXTENDS Integers, Sequences, FiniteSets, TLC

VARIABLES
    profile,        \* which ShiftManagement variant is deployed
    users,          \* store: roster table (sequence of Staff rows, listing order)
    shift_patterns, \* store: pattern catalog table (sequence of ShiftPattern rows)
    leave_requests, \* store: set of LeaveRequest rows [user_id, request_date]
    shiftsTable,    \* store: set of Shift rows [id, user_id, shift_date, pattern_id]
    nextId,         \* store: next fresh row id of the shifts table
    live,           \* sessions that have the shift-management view open
    selectedMonth,  \* per session: useState selectedMonth
    loading,        \* per session: view data not loaded yet
    staff,          \* per session: useState staff (cached roster)
    shiftPatterns,  \* per session: useState shiftPatterns (cached catalog)
    leaveRequests,  \* per session: useState leaveRequests (cached leave requests)
    shifts,         \* per session: useState shifts (cached assignments)
    pc,             \* per session: position inside the running handler
    generating,     \* per session: useState generating
    saving,         \* per session: useState saving
    message,        \* per session: useState message (outcome notification)
    generatedShifts,\* per session: local generatedShifts of generateShifts
    delErr,         \* per session: the range-delete of the running generation failed
    insErr,         \* per session: the bulk-insert of the running generation failed
    fetchErr,       \* per session: the refetch after the handler's write failed
    editingShift,   \* per session: useState editingShift (NoShift when null)
    editFormData,   \* per session: useState editFormData (part_003)
    warnings,       \* per session: useState warnings / constraints
    pending,        \* per session: the single-row write in flight to the store
    genHist,        \* history: the successive fully successful generation runs
    ops,            \* number of handler invocations so far
    budget,         \* bound on ops
    op,             \* history, per session: the manual write handler that is
                    \* running and the form values it passed to the Checker
    tz,             \* environment: the time zone the JavaScript runtime is set to
    chk,            \* a direct call of the Constraint Checker: inputs and result
    plan,           \* a direct call of the Assignment Planner: inputs and result
    agg             \* a direct call of the Workload Aggregator: inputs and result

vars == <<profile, users, shift_patterns, leave_requests, shiftsTable, nextId,
          live, selectedMonth, loading, staff, shiftPatterns, leaveRequests,
          shifts, pc, generating, saving, message, generatedShifts, delErr,
          insErr, fetchErr, editingShift, editFormData, warnings, pending,
          genHist, ops, budget, op, tz, chk, plan, agg>>

\* the environment and the direct calls, which no handler of the view changes
callVars == <<tz, chk, plan, agg>>

storeVars == <<users, shift_patterns, leave_requests, shiftsTable, nextId>>

-----------------------------------------------------------------------------
(* Bounds of the model *)

MaxOps == 3          \* handler invocations per behaviour, one session
MaxConcOps == 2      \* handler invocations per behaviour, two sessions

Sessions == {1, 2}

Profiles == {"fixed", "weekday"}

\* Months the user selects as generation target.
TargetMonths == {202506}

\* Dates the user clicks on in the calendar or types into the edit form, and
\* the workers and patterns the user picks in the edit form.
ClickDates == {20250531, 20250610, 20250611}
EditUsers == {"w1", "w2"}
EditPatterns == {"L"}

\* Roster rows as fetched: [id, role].
Roster3 == << [id |-> "w1", role |-> "fulltime"],
              [id |-> "w2", role |-> "parttime"],
              [id |-> "w3", role |-> "fulltime"] >>

Rosters == {Roster3}

\* Catalog rows as fetched: [id, pattern_name, working_hours].
Catalog4 == << [id |-> "E",  pattern_name |-> "early", working_hours |-> 8],
               [id |-> "L",  pattern_name |-> "late",  working_hours |-> 8],
               [id |-> "P1", pattern_name |-> "part1", working_hours |-> 4],
               [id |-> "P2", pattern_name |-> "part2", working_hours |-> 5] >>

Catalogs == {Catalog4}

\* Leave requests that may be in the store when the behaviour starts, and the
\* ones workers may submit later.
InitLeaveSets == { { [user_id |-> "w1", request_date |-> 20250610] } }
NewLeave  == { [user_id |-> "w3", request_date |-> 20250610] }

\* Assignments that may be in the store when the behaviour starts.
InitShiftSets ==
    { { [id |-> 1, user_id |-> "w1", shift_date |-> 20250609, pattern_id |-> "E"],
        [id |-> 2, user_id |-> "w2", shift_date |-> 20250610, pattern_id |-> "P1"],
        [id |-> 3, user_id |-> "w1", shift_date |-> 20250701, pattern_id |-> "L"] } }

NoShift == [id |-> 0, user_id |-> "", shift_date |-> 0, pattern_id |-> ""]
NoForm  == [user_id |-> "", pattern_id |-> "", shift_date |-> 0]

-----------------------------------------------------------------------------
(* Calendar: what the JavaScript Date calls of the source compute *)

Min(a, b) == IF a <= b THEN a ELSE b

YearOf(ym)  == ym \div 100      \* parseInt(selectedMonth.split('-')[0])
MonthOf(ym) == ym % 100         \* parseInt(selectedMonth.split('-')[1])

IsLeapYear(y) == (y % 4 = 0 /\ y % 100 # 0) \/ y % 400 = 0

\* new Date(year, month, 0).getDate(): the last day of the month
daysInMonth(ym) ==
    LET m == MonthOf(ym) IN
    IF m = 2 THEN (IF IsLeapYear(YearOf(ym)) THEN 29 ELSE 28)
    ELSE IF m \in {4, 6, 9, 11} THEN 30 ELSE 31

\* `${selectedMonth}-${day.toString().padStart(2, '0')}`
DateStr(ym, day) == ym * 100 + day

\* mutant: the week starts on Monday (0 = Monday .. 6 = Sunday)
getDay_MondayFirst(ym, day) ==
    LET m0 == MonthOf(ym)
        y0 == YearOf(ym)
        m  == IF m0 < 3 THEN m0 + 12 ELSE m0
        y  == IF m0 < 3 THEN y0 - 1 ELSE y0
        k  == y % 100
        j  == y \div 100
        h  == (day + ((13 * (m + 1)) \div 5) + k + (k \div 4) + (j \div 4) + 5 * j) % 7
    IN (h + 5) % 7

\* new Date(year, month - 1, day).getDay(): 0 = Sunday .. 6 = Saturday
\* (Zeller's congruence, whose 0 is Saturday, shifted to JavaScript's 0 = Sunday)
getDay(ym, day) ==
    LET m0 == MonthOf(ym)
        y0 == YearOf(ym)
        m  == IF m0 < 3 THEN m0 + 12 ELSE m0
        y  == IF m0 < 3 THEN y0 - 1 ELSE y0
        k  == y % 100
        j  == y \div 100
        h  == (day + ((13 * (m + 1)) \div 5) + k + (k \div 4) + (j \div 4) + 5 * j) % 7
    IN (h + 6) % 7

\* shift_date >= lo and shift_date <= hi (gte / lte filters of the store)
InRange(d, lo, hi) == lo <= d /\ d <= hi

MonthOfDate(d) == d \div 100

-----------------------------------------------------------------------------
(* Sequence helpers *)

Ids(s) == {s[i].id : i \in 1..Len(s)}

\* mutant: when no pattern has the name, the first pattern of the catalog is taken
FindPattern_FallbackFirst(ps, name) ==
    LET Named(x) == x.pattern_name = name
    IN IF SelectSeq(ps, Named) # <<>> THEN <<SelectSeq(ps, Named)[1]>>
       ELSE IF ps # <<>> THEN <<ps[1]>> ELSE <<>>

\* Array.prototype.find by pattern_name: first match, or none (empty sequence)
RECURSIVE FindPattern(_, _)
FindPattern(ps, name) ==
    IF ps = <<>> THEN <<>>
    ELSE IF Head(ps).pattern_name = name THEN <<Head(ps)>>
    ELSE FindPattern(Tail(ps), name)

-----------------------------------------------------------------------------
(* Entity store: the calls the component issues on the shifts table *)

\* mutant: the filter only matches the first day of the range
DeleteRange_OnlyFirst(tbl, lo, hi) == {r \in tbl : r.shift_date # lo}

\* mutant: the range-delete has no upper bound
DeleteRange_NoUpper(tbl, lo, hi) == {r \in tbl : r.shift_date < lo}

\* mutant: the filter matches no row
DeleteRange_Nothing(tbl, lo, hi) == tbl

\* .delete().gte('shift_date', lo).lte('shift_date', hi)
DeleteRange(tbl, lo, hi) == {r \in tbl : ~InRange(r.shift_date, lo, hi)}

\* mutant: an upsert on (user_id, shift_date) instead of a plain insert
InsertRows_Upsert(tbl, rows, base) ==
    {r \in tbl : ~\E i \in 1..Len(rows) : /\ rows[i].user_id = r.user_id
                                          /\ rows[i].shift_date = r.shift_date}
    \cup { [id |-> base + i - 1, user_id |-> rows[i].user_id,
            shift_date |-> rows[i].shift_date,
            pattern_id |-> rows[i].pattern_id] : i \in 1..Len(rows) }

\* .insert(rows): every row gets a fresh id, in the order given
InsertRows(tbl, rows, base) ==
    tbl \cup { [id |-> base + i - 1, user_id |-> rows[i].user_id,
                shift_date |-> rows[i].shift_date,
                pattern_id |-> rows[i].pattern_id] : i \in 1..Len(rows) }

\* .select().gte('shift_date', lo).lte('shift_date', hi)
SelectRange(tbl, lo, hi) == {r \in tbl : InRange(r.shift_date, lo, hi)}

\* .update(fields).eq('id', id)
UpdateRow(tbl, id, f) ==
    { IF r.id = id
      THEN [id |-> id, user_id |-> f.user_id, shift_date |-> f.shift_date,
            pattern_id |-> f.pattern_id]
      ELSE r : r \in tbl }

\* .delete().eq('id', id)
DeleteRow(tbl, id) == {r \in tbl : r.id # id}

\* mutant: the upper bound of the range-delete is the first day of the month
GenDeleteHi_FirstDay(prof, ym) == ym * 100 + 1

\* Bounds of the range-delete of generateShifts.
GenDeleteLo(ym) == DateStr(ym, 1)
GenDeleteHi(prof, ym) ==
    IF prof = "fixed" THEN DateStr(ym, 31) ELSE DateStr(ym, daysInMonth(ym))

\* mutant: the read-back range ends on the 28th
FetchShifts_Short(prof, tbl, ym) ==
    {r \in tbl : InRange(r.shift_date, ym * 100 + 1, ym * 100 + 28)}

\* Range read back by the view after a write.
\* fixed: fetchShiftsForMonth(selectedMonth); weekday: fetchShifts() reads all.
FetchShifts(prof, tbl, ym) ==
    IF prof = "fixed" THEN SelectRange(tbl, DateStr(ym, 1), DateStr(ym, 31))
    ELSE tbl

-----------------------------------------------------------------------------
(* Assignment Planner *)

FixedHeadcount == 2
BaselineTarget == 4
WednesdayTarget == 3

\* mutant: the leave requests of the day before are taken
unavailableStaffIds_DayBefore(leave, date) ==
    {l.user_id : l \in {x \in leave : x.request_date = date - 1}}

\* workers with a leave request on the date
unavailableStaffIds(leave, date) ==
    {l.user_id : l \in {x \in leave : x.request_date = date}}

\* staff.filter(s => !unavailableStaffIds.includes(s.id))
availableStaff(st, leave, date) ==
    LET Free(w) == w.id \notin unavailableStaffIds(leave, date)
    IN SelectSeq(st, Free)

\* mutant: every draft of the day gets the first pattern of the catalog
PlanDayFixed_FirstPattern(date, st, pats, leave) ==
    LET av == availableStaff(st, leave, date)
    IN IF Len(pats) = 0 THEN <<>>
       ELSE [i \in 1..Min(FixedHeadcount, Len(av)) |->
               [user_id |-> av[i].id, shift_date |-> date,
                pattern_id |-> pats[1].id]]

\* part_003: the first min(2, available) workers, patterns in rotation
PlanDayFixed(date, st, pats, leave) ==
    LET av == availableStaff(st, leave, date)
        shiftsPerDay == Min(FixedHeadcount, Len(av))
    IN IF Len(pats) = 0 THEN <<>>
       ELSE [i \in 1..shiftsPerDay |->
               [user_id |-> av[i].id, shift_date |-> date,
                pattern_id |-> pats[((i - 1) % Len(pats)) + 1].id]]

\* mutant: the pool keeps the roster order
SortFullTimeFirst_RosterOrder(av) == av

\* availableStaff.sort(...): full-time workers first, stable otherwise
SortFullTimeFirst(av) ==
    LET Full(w) == w.role = "fulltime"
        Other(w) == w.role # "fulltime"
    IN SelectSeq(av, Full) \o SelectSeq(av, Other)

\* mutant: the baseline target on every day
targetStaff_AlwaysBaseline(dayOfWeek, nAvailable) == BaselineTarget

\* target headcount by day of week
targetStaff(dayOfWeek, nAvailable) ==
    IF dayOfWeek = 3 THEN WednesdayTarget
    ELSE IF dayOfWeek = 6 THEN Min(BaselineTarget, nAvailable)
    ELSE BaselineTarget

\* mutant: the parity is taken of the 1-based index
ExpectedPatternName_OneBased(role, i) ==
    IF role = "fulltime"
    THEN (IF i % 2 = 1 THEN "early" ELSE "late")
    ELSE (IF i % 2 = 1 THEN "part1" ELSE "part2")

\* pattern name expected for the worker at 0-based selection index i
ExpectedPatternName(role, i) ==
    IF role = "fulltime"
    THEN (IF i % 2 = 0 THEN "early" ELSE "late")
    ELSE (IF i % 2 = 0 THEN "part1" ELSE "part2")

RECURSIVE AssignPatterns(_, _, _, _, _)
\* the loop over i < shiftsPerDay followed by assignedStaff.forEach
AssignPatterns(sel, pats, date, i, n) ==
    IF i >= n THEN <<>>
    ELSE LET w == sel[i + 1]
             found == FindPattern(pats, ExpectedPatternName(w.role, i))
             rest == AssignPatterns(sel, pats, date, i + 1, n)
         IN IF found = <<>> THEN rest
            ELSE << [user_id |-> w.id, shift_date |-> date,
                     pattern_id |-> found[1].id] >> \o rest

\* shiftsPerDay = Math.min(targetStaff, availableStaff.length)
shiftsPerDay(dayOfWeek, av) == Min(targetStaff(dayOfWeek, Len(av)), Len(av))

\* part_002: one iteration of the loop over the days of the month
PlanDayWeekday(ym, day, st, pats, leave) ==
    LET date == DateStr(ym, day)
        dayOfWeek == getDay(ym, day)
        av == SortFullTimeFirst(availableStaff(st, leave, date))
    IN IF dayOfWeek = 0 THEN <<>>
       ELSE AssignPatterns(av, pats, date, 0, shiftsPerDay(dayOfWeek, av))

PlanDay(prof, ym, day, st, pats, leave) ==
    IF prof = "fixed" THEN PlanDayFixed(DateStr(ym, day), st, pats, leave)
    ELSE PlanDayWeekday(ym, day, st, pats, leave)

RECURSIVE PlanDays_Descending(_, _, _, _, _, _, _)
\* mutant: the loop runs from the last day of the month to the first
PlanDays_Descending(prof, ym, day, last, st, pats, leave) ==
    IF day > last THEN <<>>
    ELSE PlanDays_Descending(prof, ym, day + 1, last, st, pats, leave)
         \o PlanDay(prof, ym, day, st, pats, leave)

RECURSIVE PlanDays(_, _, _, _, _, _, _)
PlanDays(prof, ym, day, last, st, pats, leave) ==
    IF day > last THEN <<>>
    ELSE PlanDay(prof, ym, day, st, pats, leave)
         \o PlanDays(prof, ym, day + 1, last, st, pats, leave)

\* for (let day = 1; day <= daysInMonth; day++) { ... }
PlanMonth(prof, ym, st, pats, leave) ==
    PlanDays(prof, ym, 1, daysInMonth(ym), st, pats, leave)

-----------------------------------------------------------------------------
(* Constraint Checker *)

HeadcountCeiling == 3
RunLengthLimit == 3

PrevDay(d) ==
    IF d % 100 > 1 THEN d - 1
    ELSE LET ym == MonthOfDate(d)
             pm == IF MonthOf(ym) = 1 THEN (YearOf(ym) - 1) * 100 + 12 ELSE ym - 1
         IN DateStr(pm, daysInMonth(pm))

NextDay(d) ==
    LET ym == MonthOfDate(d) IN
    IF d % 100 < daysInMonth(ym) THEN d + 1
    ELSE DateStr(IF MonthOf(ym) = 12 THEN (YearOf(ym) + 1) * 100 + 1 ELSE ym + 1, 1)

RECURSIVE DaysBefore(_, _)
\* expectedDate.setDate(expectedDate.getDate() - k)
DaysBefore(d, k) == IF k = 0 THEN d ELSE DaysBefore(PrevDay(d), k - 1)

\* Time zones of the runtime.  new Date('YYYY-MM-DD') is midnight UTC, setDate
\* and getDate work on the local wall clock, toISOString prints the UTC date.
\* The local offset matters only where daylight time starts or ends between
\* the two instants.  dstStart: the last date of 2025 whose UTC midnight is in
\* standard time before daylight time starts; dstEnd: the first date whose UTC
\* midnight is in standard time again (0: the zone has no daylight time).
TimeZones ==
    { [name |-> "Asia/Tokyo", dstStart |-> 0, dstEnd |-> 0],
      [name |-> "America/New_York", dstStart |-> 20250309, dstEnd |-> 20251103] }

\* d = new Date(date); d.setDate(d.getDate() - k); d.toISOString().slice(0, 10)
\* The wall clock k days back is in daylight time while the date's midnight is
\* not: the instant is one hour before the UTC midnight meant.
expectedDate(z, date, k) ==
    IF z.dstEnd # 0 /\ date >= z.dstEnd /\ DaysBefore(date, k) < z.dstEnd
    THEN DaysBefore(date, k + 1)
    ELSE DaysBefore(date, k)

\* previousDay.setDate(previousDay.getDate() - 1); toISOString().split('T')[0]
previousDay(z, date) == expectedDate(z, date, 1)

\* nextDay.setDate(nextDay.getDate() + 1); toISOString().split('T')[0]
\* The wall clock of the next day is in daylight time while the date's
\* midnight is not: the instant is 23 hours later, still on the same UTC date.
nextDay(z, date) ==
    IF z.dstStart # 0 /\ date = z.dstStart THEN date ELSE NextDay(date)

Warn(kind, n) == [kind |-> kind, n |-> n]

\* mutant: only the date is compared
hasLeaveRequest_DateOnly(lv, date, userId) ==
    \E leave \in lv : leave.request_date = date

\* leaveRequests.some(leave => leave.request_date === date && leave.user_id === userId)
hasLeaveRequest(lv, date, userId) ==
    \E leave \in lv : leave.request_date = date /\ leave.user_id = userId

\* mutant: the assignment being edited is counted too
dayShifts_CountSelf(sh, date, excludeShiftId) == {x \in sh : x.shift_date = date}

\* shifts.filter(shift => shift.shift_date === date && shift.id !== excludeShiftId)
dayShifts(sh, date, excludeShiftId) ==
    {x \in sh : x.shift_date = date /\ x.id # excludeShiftId}

\* shifts.some(shift => shift.shift_date === <previous day> && ...)
prevDayShift(z, sh, date, userId, excludeShiftId) ==
    \E x \in sh : /\ x.shift_date = previousDay(z, date)
                  /\ x.user_id = userId
                  /\ x.id # excludeShiftId

\* shifts.some(shift => shift.shift_date === <next day> && ...)
nextDayShift(z, sh, date, userId, excludeShiftId) ==
    \E x \in sh : /\ x.shift_date = nextDay(z, date)
                  /\ x.user_id = userId
                  /\ x.id # excludeShiftId

\* mutant: the headcount rule fires before the leave rule
checkConstraintsFixed_HeadcountFirst(z, date, userId, excludeShiftId, lv, sh) ==
    (IF Cardinality(dayShifts(sh, date, excludeShiftId)) >= HeadcountCeiling
     THEN <<Warn("headcount", 3)>> ELSE <<>>)
    \o (IF hasLeaveRequest(lv, date, userId) THEN <<Warn("leave", 0)>> ELSE <<>>)
    \o (IF /\ prevDayShift(z, sh, date, userId, excludeShiftId)
           /\ nextDayShift(z, sh, date, userId, excludeShiftId)
        THEN <<Warn("consecutive", 3)>> ELSE <<>>)

\* part_003 checkConstraints(date, userId, patternId, excludeShiftId)
checkConstraintsFixed(z, date, userId, excludeShiftId, lv, sh) ==
    (IF hasLeaveRequest(lv, date, userId) THEN <<Warn("leave", 0)>> ELSE <<>>)
    \o (IF Cardinality(dayShifts(sh, date, excludeShiftId)) >= HeadcountCeiling
        THEN <<Warn("headcount", 3)>> ELSE <<>>)
    \o (IF /\ prevDayShift(z, sh, date, userId, excludeShiftId)
           /\ nextDayShift(z, sh, date, userId, excludeShiftId)
        THEN <<Warn("consecutive", 3)>> ELSE <<>>)

RECURSIVE SortedDates(_)
\* shifts.filter(s => s.user_id === userId).sort(by shift_date), dates only
SortedDates(rows) ==
    IF rows = {} THEN <<>>
    ELSE LET m == CHOOSE x \in rows : \A y \in rows :
                      x.shift_date < y.shift_date
                      \/ (x.shift_date = y.shift_date /\ x.id <= y.id)
         IN <<m.shift_date>> \o SortedDates(rows \ {m})

\* findIndex(s => s.shift_date === date), 1-based; 0 when there is none
RECURSIVE FindIndex(_, _, _)
FindIndex(ds, date, i) ==
    IF i > Len(ds) THEN 0
    ELSE IF ds[i] = date THEN i ELSE FindIndex(ds, date, i + 1)

RECURSIVE CountBack(_, _, _, _, _)
\* the loop for (i = currentIndex - 1; i >= 0; i--) { ... else break }
CountBack(z, ds, date, cur, i) ==
    IF i < 1 THEN 0
    ELSE IF ds[i] = expectedDate(z, date, cur - i)
         THEN 1 + CountBack(z, ds, date, cur, i - 1)
         ELSE 0

\* part_002 checkConstraints(userId, date, _patternId)
checkConstraintsRun(z, userId, date, lv, sh) ==
    LET userShifts == SortedDates({x \in sh : x.user_id = userId})
        currentIndex == FindIndex(userShifts, date, 1)
        consecutiveDays == 1 + (IF currentIndex = 0 THEN 0
                                ELSE CountBack(z, userShifts, date, currentIndex,
                                               currentIndex - 1))
    IN (IF hasLeaveRequest(lv, date, userId) THEN <<Warn("leave", 0)>> ELSE <<>>)
       \o (IF consecutiveDays >= RunLengthLimit
           THEN <<Warn("run", consecutiveDays)>> ELSE <<>>)

checkConstraints(prof, z, date, userId, excludeShiftId, lv, sh) ==
    IF prof = "fixed"
    THEN checkConstraintsFixed(z, date, userId, excludeShiftId, lv, sh)
    ELSE checkConstraintsRun(z, userId, date, lv, sh)

-----------------------------------------------------------------------------
(* Initial states *)

NoPending == [kind |-> "none", id |-> 0, user_id |-> "", shift_date |-> 0,
              pattern_id |-> ""]
NoMessage == [kind |-> "", n |-> 0]
Msg(kind, n) == [kind |-> kind, n |-> n]

MaxInitId(tbl) == IF tbl = {} THEN 0 ELSE CHOOSE n \in {r.id : r \in tbl} :
                                              \A r \in tbl : r.id <= n

NoOp == [name |-> "none", checked |-> NoForm]

\* the state of the components before their first effect has run
InitComponents ==
    /\ selectedMonth \in [Sessions -> TargetMonths]
    /\ loading = [s \in Sessions |-> TRUE]
    /\ staff = [s \in Sessions |-> <<>>]
    /\ shiftPatterns = [s \in Sessions |-> <<>>]
    /\ leaveRequests = [s \in Sessions |-> {}]
    /\ shifts = [s \in Sessions |-> {}]
    /\ pc = [s \in Sessions |-> "idle"]
    /\ generating = [s \in Sessions |-> FALSE]
    /\ saving = [s \in Sessions |-> FALSE]
    /\ message = [s \in Sessions |-> NoMessage]
    /\ generatedShifts = [s \in Sessions |-> <<>>]
    /\ delErr = [s \in Sessions |-> FALSE]
    /\ insErr = [s \in Sessions |-> FALSE]
    /\ fetchErr = [s \in Sessions |-> FALSE]
    /\ editingShift = [s \in Sessions |-> NoShift]
    /\ editFormData = [s \in Sessions |-> NoForm]
    /\ warnings = [s \in Sessions |-> <<>>]
    /\ pending = [s \in Sessions |-> NoPending]
    /\ genHist = <<>>
    /\ ops = 0
    /\ op = [s \in Sessions |-> NoOp]

\* the store without its assignments, and no view opened yet
InitSessions ==
    /\ profile \in Profiles
    /\ users \in Rosters
    /\ shift_patterns \in Catalogs
    /\ leave_requests \in InitLeaveSets
    /\ InitComponents

InitView ==
    /\ shiftsTable \in InitShiftSets
    /\ nextId = MaxInitId(shiftsTable) + 1
    /\ InitSessions

\* no direct call of the Checker or of the Planner
NoCheck == [phase |-> "off", base |-> 0, lv |-> {}, sh |-> {}, date |-> 0,
            userId |-> "", excludeShiftId |-> 0, out |-> <<>>]
NoPlan == [phase |-> "off", ym |-> 0, day |-> 0, st |-> <<>>, pats |-> <<>>,
           lv |-> {}, pool |-> <<>>, sel |-> <<>>, out |-> <<>>]

NoAgg == [phase |-> "off", st |-> <<>>, pats |-> <<>>, sh |-> {},
          hours |-> {}, stats |-> <<>>]

\* The runtime of the sessions of the view.
SessionTimeZones == {z \in TimeZones : z.name = "Asia/Tokyo"}

InitCommon ==
    /\ InitView
    /\ tz \in SessionTimeZones
    /\ chk = NoCheck
    /\ plan = NoPlan
    /\ agg = NoAgg

\* One interactive session (the single-actor model of the design).
Init == InitCommon /\ live = {1} /\ budget = MaxOps

\* Two sessions with the shift-management view open at the same time.
InitConc == InitCommon /\ live = Sessions /\ budget = MaxConcOps

-----------------------------------------------------------------------------
(* View load *)

\* Which of the mount-time reads fail (kept to: none).
ReadFailures == { {} }

\* part_003: useEffect -> initializeData (+ fetchShiftsForMonth(selectedMonth));
\* part_002: useEffect -> fetchStaff, fetchShifts, fetchShiftPatterns,
\* fetchLeaveRequests.  A failed read leaves its state as it was.
LoadView(s, failed) ==
    /\ s \in live
    /\ loading[s]
    /\ pc[s] = "idle"
    /\ loading' = [loading EXCEPT ![s] = FALSE]
    /\ staff' = [staff EXCEPT ![s] = users]
    /\ shiftPatterns' = [shiftPatterns EXCEPT ![s] = shift_patterns]
    /\ leaveRequests' = [leaveRequests EXCEPT ![s] =
                            IF "leave_requests" \in failed THEN @ ELSE leave_requests]
    /\ shifts' = [shifts EXCEPT ![s] = FetchShifts(profile, shiftsTable, selectedMonth[s])]
    /\ UNCHANGED <<callVars, op, profile, storeVars, live, budget, selectedMonth, pc, generating, saving,
                   message, generatedShifts, delErr, insErr, fetchErr, editingShift,
                   editFormData, warnings, pending, genHist, ops>>

\* LeaveRequest component, submitLeaveRequest: a worker files a leave request.
submitLeaveRequest(l) ==
    /\ l \notin leave_requests
    /\ leave_requests' = leave_requests \cup {l}
    /\ UNCHANGED <<callVars, op, profile, users, shift_patterns, shiftsTable, nextId, live, budget,
                   selectedMonth, loading, staff, shiftPatterns, leaveRequests, shifts,
                   pc, generating, saving, message, generatedShifts, delErr, insErr,
                   fetchErr, editingShift, editFormData, warnings, pending, genHist, ops>>

\* The handlers of the view can be invoked once it is rendered: part_003 renders
\* a spinner while loading, part_002 renders the view at once.
Rendered(s) == s \in live /\ (profile = "fixed" => ~loading[s])

CanStart(s) == Rendered(s) /\ pc[s] = "idle" /\ ops < budget

-----------------------------------------------------------------------------
(* Month Generator: generateShifts *)

MonthRows(tbl, ym) == {r \in tbl : MonthOfDate(r.shift_date) = ym}

\* mutant: generateShifts has no guard on the roster and the catalog
GenStart_Unguarded(s) ==
    /\ CanStart(s)
    /\ ops' = ops + 1
    /\ pc' = [pc EXCEPT ![s] = "gen_delete"]
    /\ generating' = [generating EXCEPT ![s] = (profile = "fixed")]
    /\ message' = [message EXCEPT ![s] = NoMessage]
    /\ UNCHANGED <<callVars, op, profile, storeVars, live, budget, selectedMonth, loading, staff,
                   shiftPatterns, leaveRequests, shifts, saving, generatedShifts,
                   delErr, insErr, fetchErr, editingShift, editFormData, warnings,
                   pending, genHist>>

\* entry of generateShifts up to the first await (the range-delete is issued)
GenStart(s) ==
    /\ CanStart(s)
    /\ ops' = ops + 1
    /\ IF profile = "fixed" /\ (Len(staff[s]) = 0 \/ Len(shiftPatterns[s]) = 0)
       THEN /\ message' = [message EXCEPT ![s] = Msg("insufficient", 0)]
            /\ UNCHANGED <<pc, generating>>
       ELSE /\ pc' = [pc EXCEPT ![s] = "gen_delete"]
            /\ generating' = [generating EXCEPT ![s] = (profile = "fixed")]
            /\ message' = [message EXCEPT ![s] = NoMessage]
    /\ UNCHANGED <<callVars, op, profile, storeVars, live, budget, selectedMonth, loading, staff,
                   shiftPatterns, leaveRequests, shifts, saving, generatedShifts,
                   delErr, insErr, fetchErr, editingShift, editFormData, warnings,
                   pending, genHist>>

\* history of fully successful runs: the last two, in succession
Remember(hist, run) == IF Len(hist) = 0 THEN <<run>> ELSE <<hist[Len(hist)], run>>

RunRecord(s, tbl, drafts) ==
    [month |-> selectedMonth[s], staff |-> staff[s], patterns |-> shiftPatterns[s],
     leave |-> leaveRequests[s], count |-> Cardinality(MonthRows(tbl, selectedMonth[s])),
     drafts |-> drafts]

\* the store answers the range-delete; the handler plans the month and either
\* issues the bulk-insert or finishes
GenDelete(s, ok) ==
    /\ pc[s] = "gen_delete"
    /\ LET ym == selectedMonth[s]
           tbl == IF ok THEN DeleteRange(shiftsTable, GenDeleteLo(ym),
                                         GenDeleteHi(profile, ym))
                  ELSE shiftsTable
           drafts == PlanMonth(profile, ym, staff[s], shiftPatterns[s],
                               leaveRequests[s])
       IN /\ shiftsTable' = tbl
          /\ delErr' = [delErr EXCEPT ![s] = ~ok]
          /\ generatedShifts' = [generatedShifts EXCEPT ![s] = drafts]
          /\ IF Len(drafts) > 0
             THEN /\ pc' = [pc EXCEPT ![s] = "gen_insert"]
                  /\ UNCHANGED <<message, generating, genHist>>
             ELSE /\ genHist' = IF ok THEN Remember(genHist, RunRecord(s, tbl, drafts))
                                ELSE <<>>
                  /\ IF profile = "fixed"
                     THEN /\ message' = [message EXCEPT ![s] = Msg("nodrafts", 0)]
                          /\ generating' = [generating EXCEPT ![s] = FALSE]
                          /\ pc' = [pc EXCEPT ![s] = "gen_done"]
                     ELSE /\ pc' = [pc EXCEPT ![s] = "gen_fetch"]
                          /\ UNCHANGED <<message, generating>>
    /\ UNCHANGED <<callVars, op, profile, users, shift_patterns, leave_requests, nextId, live, budget,
                   selectedMonth, loading, staff, shiftPatterns, leaveRequests, shifts,
                   saving, insErr, fetchErr, editingShift, editFormData, warnings,
                   pending, ops>>

\* mutant: a failed bulk-insert leaves the handler without its finally block
GenInsert_NoFinally(s, ok) ==
    /\ pc[s] = "gen_insert"
    /\ LET tbl == IF ok THEN InsertRows(shiftsTable, generatedShifts[s], nextId)
                  ELSE shiftsTable
       IN /\ shiftsTable' = tbl
          /\ nextId' = IF ok THEN nextId + Len(generatedShifts[s]) ELSE nextId
          /\ insErr' = [insErr EXCEPT ![s] = ~ok]
          /\ genHist' = IF ok /\ ~delErr[s]
                        THEN Remember(genHist, RunRecord(s, tbl, generatedShifts[s]))
                        ELSE <<>>
    /\ IF profile = "fixed" /\ ~ok
       THEN /\ message' = [message EXCEPT ![s] = Msg("failed", 0)]
            /\ UNCHANGED generating
            /\ pc' = [pc EXCEPT ![s] = "gen_done"]
       ELSE /\ message' = [message EXCEPT ![s] =
                              IF profile = "fixed"
                              THEN Msg("generated", Len(generatedShifts[s])) ELSE @]
            /\ pc' = [pc EXCEPT ![s] = "gen_fetch"]
            /\ UNCHANGED generating
    /\ UNCHANGED <<callVars, op, profile, users, shift_patterns, leave_requests, live, budget,
                   selectedMonth, loading, staff, shiftPatterns, leaveRequests, shifts,
                   saving, generatedShifts, delErr, fetchErr, editingShift,
                   editFormData, warnings, pending, ops>>

\* the store answers the bulk-insert
GenInsert(s, ok) ==
    /\ pc[s] = "gen_insert"
    /\ LET tbl == IF ok THEN InsertRows(shiftsTable, generatedShifts[s], nextId)
                  ELSE shiftsTable
       IN /\ shiftsTable' = tbl
          /\ nextId' = IF ok THEN nextId + Len(generatedShifts[s]) ELSE nextId
          /\ insErr' = [insErr EXCEPT ![s] = ~ok]
          /\ genHist' = IF ok /\ ~delErr[s]
                        THEN Remember(genHist, RunRecord(s, tbl, generatedShifts[s]))
                        ELSE <<>>
    /\ IF profile = "fixed" /\ ~ok
       THEN /\ message' = [message EXCEPT ![s] = Msg("failed", 0)]
            /\ generating' = [generating EXCEPT ![s] = FALSE]
            /\ pc' = [pc EXCEPT ![s] = "gen_done"]
       ELSE /\ message' = [message EXCEPT ![s] =
                              IF profile = "fixed"
                              THEN Msg("generated", Len(generatedShifts[s])) ELSE @]
            /\ pc' = [pc EXCEPT ![s] = "gen_fetch"]
            /\ UNCHANGED generating
    /\ UNCHANGED <<callVars, op, profile, users, shift_patterns, leave_requests, live, budget,
                   selectedMonth, loading, staff, shiftPatterns, leaveRequests, shifts,
                   saving, generatedShifts, delErr, fetchErr, editingShift,
                   editFormData, warnings, pending, ops>>

\* the store answers the read issued after a write (fetchShiftsForMonth /
\* fetchShifts); a failed read leaves the cached shifts as they were
Refetch(s, ok) ==
    /\ pc[s] \in {"gen_fetch", "man_fetch"}
    /\ shifts' = [shifts EXCEPT ![s] =
                     IF ok THEN FetchShifts(profile, shiftsTable, selectedMonth[s])
                     ELSE @]
    /\ fetchErr' = [fetchErr EXCEPT ![s] = ~ok]
    /\ generating' = [generating EXCEPT ![s] = IF pc[s] = "gen_fetch" THEN FALSE ELSE @]
    /\ saving' = [saving EXCEPT ![s] = IF pc[s] = "man_fetch" THEN FALSE ELSE @]
    /\ pc' = [pc EXCEPT ![s] = IF pc[s] = "gen_fetch" THEN "gen_done" ELSE "man_done"]
    /\ UNCHANGED <<callVars, op, profile, storeVars, live, budget, selectedMonth, loading, staff,
                   shiftPatterns, leaveRequests, message, generatedShifts, delErr,
                   insErr, editingShift, editFormData, warnings, pending, genHist, ops>>

\* the handler has run to its end: its locals are gone, and the timer it set
\* (setTimeout(() => setMessage(''), ...)) has blanked its notification
Return(s) ==
    /\ pc[s] \in {"gen_done", "man_done"}
    /\ pc' = [pc EXCEPT ![s] = "idle"]
    /\ generatedShifts' = [generatedShifts EXCEPT ![s] = <<>>]
    /\ delErr' = [delErr EXCEPT ![s] = FALSE]
    /\ insErr' = [insErr EXCEPT ![s] = FALSE]
    /\ fetchErr' = [fetchErr EXCEPT ![s] = FALSE]
    /\ pending' = [pending EXCEPT ![s] = NoPending]
    /\ op' = [op EXCEPT ![s] = NoOp]
    /\ message' = [message EXCEPT ![s] =
                      IF pc[s] = "gen_done" \/ @.kind = "saved" THEN NoMessage ELSE @]
    /\ UNCHANGED <<callVars, profile, storeVars, live, budget, selectedMonth, loading, staff,
                   shiftPatterns, leaveRequests, shifts, generating, saving,
                   editingShift, editFormData, warnings, genHist, ops>>

-----------------------------------------------------------------------------
(* Manual editing *)

FormOf(sh) == [user_id |-> sh.user_id, pattern_id |-> sh.pattern_id,
               shift_date |-> sh.shift_date]

\* the values the edit modal currently shows: editFormData in part_003,
\* the editingShift draft itself in part_002
CurrentForm(s) == IF profile = "fixed" THEN editFormData[s] ELSE FormOf(editingShift[s])

\* handleEventClick: a shift on a clicked date is opened in the edit modal
handleEventClick(s, sh) ==
    /\ CanStart(s)
    /\ sh \in shifts[s]
    /\ sh.shift_date \in ClickDates
    /\ ops' = ops + 1
    /\ editingShift' = [editingShift EXCEPT ![s] = sh]
    /\ editFormData' = [editFormData EXCEPT ![s] =
                           IF profile = "fixed" THEN FormOf(sh) ELSE @]
    /\ warnings' = [warnings EXCEPT ![s] =
                       checkConstraints(profile, tz, sh.shift_date, sh.user_id, sh.id,
                                        leaveRequests[s], shifts[s])]
    /\ UNCHANGED <<callVars, op, profile, storeVars, live, budget, selectedMonth, loading, staff,
                   shiftPatterns, leaveRequests, shifts, pc, generating, saving,
                   message, generatedShifts, delErr, insErr, fetchErr, pending, genHist>>

\* the onChange handlers of the three fields of the edit modal
ChangeField(s, field, value) ==
    /\ CanStart(s)
    /\ editingShift[s] # NoShift
    /\ \/ field = "user_id" /\ value \in Ids(staff[s])
       \/ field = "pattern_id" /\ value \in Ids(shiftPatterns[s])
       \/ field = "shift_date" /\ value \in ClickDates
    /\ CurrentForm(s)[field] # value
    /\ ops' = ops + 1
    /\ IF profile = "fixed"
       THEN LET f == [editFormData[s] EXCEPT ![field] = value]
            IN /\ editFormData' = [editFormData EXCEPT ![s] = f]
               /\ warnings' = [warnings EXCEPT ![s] =
                      checkConstraints(profile, tz, f.shift_date, f.user_id,
                                       editingShift[s].id, leaveRequests[s], shifts[s])]
               /\ UNCHANGED editingShift
       ELSE /\ editingShift' = [editingShift EXCEPT ![s][field] = value]
            /\ UNCHANGED <<editFormData, warnings>>
    /\ UNCHANGED <<callVars, op, profile, storeVars, live, budget, selectedMonth, loading, staff,
                   shiftPatterns, leaveRequests, shifts, pc, generating, saving,
                   message, generatedShifts, delErr, insErr, fetchErr, pending, genHist>>

Write(kind, id, f) == [kind |-> kind, id |-> id, user_id |-> f.user_id,
                       shift_date |-> f.shift_date, pattern_id |-> f.pattern_id]

\* handleDateClick on a date, the user confirming.
\* part_003: addNewShift(date) issues the insert at once;
\* part_002: a draft without id is opened in the edit modal, if the view shows
\* no shift on that date.
handleDateClick(s, date) ==
    /\ CanStart(s)
    /\ date \in ClickDates
    /\ ops' = ops + 1
    /\ IF Len(staff[s]) = 0 \/ Len(shiftPatterns[s]) = 0
          \/ (profile = "weekday" /\ \E x \in shifts[s] : x.shift_date = date)
       THEN UNCHANGED <<pc, saving, message, pending, editingShift, warnings, op>>
       ELSE LET f == [user_id |-> staff[s][1].id,
                      pattern_id |-> shiftPatterns[s][1].id, shift_date |-> date]
            IN IF profile = "fixed"
               THEN /\ saving' = [saving EXCEPT ![s] = TRUE]
                    /\ message' = [message EXCEPT ![s] = NoMessage]
                    /\ pending' = [pending EXCEPT ![s] = Write("insert", 0, f)]
                    /\ pc' = [pc EXCEPT ![s] = "man_write"]
                    /\ op' = [op EXCEPT ![s] = [name |-> "addNewShift",
                                                checked |-> NoForm]]
                    /\ UNCHANGED <<editingShift, warnings>>
               ELSE /\ editingShift' = [editingShift EXCEPT ![s] =
                           [id |-> 0, user_id |-> f.user_id,
                            shift_date |-> date, pattern_id |-> f.pattern_id]]
                    /\ warnings' = [warnings EXCEPT ![s] = <<>>]
                    /\ UNCHANGED <<pc, saving, message, pending, op>>
    /\ UNCHANGED <<callVars, profile, storeVars, live, budget, selectedMonth, loading, staff,
                   shiftPatterns, leaveRequests, shifts, generating, generatedShifts,
                   delErr, insErr, fetchErr, editFormData, genHist>>

\* mutant: the handler returns without a store write when the Checker has a
\* warning for the form
saveShift_BlockedByWarning(s) ==
    /\ CanStart(s)
    /\ editingShift[s] # NoShift
    /\ ops' = ops + 1
    /\ LET f == CurrentForm(s)
           id == editingShift[s].id
           ws == checkConstraints(profile, tz, f.shift_date, f.user_id, id,
                                  leaveRequests[s], shifts[s])
       IN /\ warnings' = [warnings EXCEPT ![s] = ws]
          /\ op' = [op EXCEPT ![s] = [name |-> "saveShift", checked |-> f]]
          /\ IF ws = <<>>
             THEN /\ pending' = [pending EXCEPT ![s] =
                         Write(IF id # 0 THEN "update" ELSE "insert", id, f)]
                  /\ pc' = [pc EXCEPT ![s] = "man_write"]
             ELSE /\ pc' = [pc EXCEPT ![s] = "man_done"]
                  /\ UNCHANGED pending
    /\ UNCHANGED <<callVars, profile, storeVars, live, budget, selectedMonth, loading,
                   staff, shiftPatterns, leaveRequests, shifts, generating,
                   generatedShifts, delErr, insErr, fetchErr, editingShift,
                   editFormData, genHist, saving, message>>

\* part_003 updateShift / part_002 saveShift, up to the store call
saveShift(s) ==
    /\ CanStart(s)
    /\ editingShift[s] # NoShift
    /\ ops' = ops + 1
    /\ LET f == CurrentForm(s)
           id == editingShift[s].id
       IN IF profile = "fixed"
          THEN /\ saving' = [saving EXCEPT ![s] = TRUE]
               /\ message' = [message EXCEPT ![s] = NoMessage]
               /\ pending' = [pending EXCEPT ![s] = Write("update", id, f)]
               /\ op' = [op EXCEPT ![s] = [name |-> "updateShift",
                                           checked |-> NoForm]]
               /\ UNCHANGED warnings
          ELSE /\ warnings' = [warnings EXCEPT ![s] =
                      checkConstraints(profile, tz, f.shift_date, f.user_id, id,
                                       leaveRequests[s], shifts[s])]
               /\ pending' = [pending EXCEPT ![s] =
                      Write(IF id # 0 THEN "update" ELSE "insert", id, f)]
               /\ op' = [op EXCEPT ![s] = [name |-> "saveShift", checked |-> f]]
               /\ UNCHANGED <<saving, message>>
    /\ pc' = [pc EXCEPT ![s] = "man_write"]
    /\ UNCHANGED <<callVars, profile, storeVars, live, budget, selectedMonth, loading, staff,
                   shiftPatterns, leaveRequests, shifts, generating, generatedShifts,
                   delErr, insErr, fetchErr, editingShift, editFormData, genHist>>

\* deleteShift, the user confirming, up to the store call
deleteShift(s) ==
    /\ CanStart(s)
    /\ editingShift[s] # NoShift
    /\ profile = "weekday" => editingShift[s].id # 0
    /\ ops' = ops + 1
    /\ saving' = [saving EXCEPT ![s] = (profile = "fixed")]
    /\ message' = [message EXCEPT ![s] = IF profile = "fixed" THEN NoMessage ELSE @]
    /\ pending' = [pending EXCEPT ![s] =
                      Write("delete", editingShift[s].id, FormOf(editingShift[s]))]
    /\ op' = [op EXCEPT ![s] = [name |-> "deleteShift", checked |-> NoForm]]
    /\ pc' = [pc EXCEPT ![s] = "man_write"]
    /\ UNCHANGED <<callVars, profile, storeVars, live, budget, selectedMonth, loading, staff,
                   shiftPatterns, leaveRequests, shifts, generating, generatedShifts,
                   delErr, insErr, fetchErr, editingShift, editFormData, warnings,
                   genHist>>

\* effect of a single-row write on the shifts table
ApplyWrite(tbl, w, base) ==
    IF w.kind = "insert" THEN InsertRows(tbl, <<w>>, base)
    ELSE IF w.kind = "update" THEN UpdateRow(tbl, w.id, w)
    ELSE DeleteRow(tbl, w.id)

\* the store answers the single-row write of updateShift / saveShift /
\* deleteShift / addNewShift
ManWrite(s, ok) ==
    /\ pc[s] = "man_write"
    /\ shiftsTable' = IF ok THEN ApplyWrite(shiftsTable, pending[s], nextId)
                      ELSE shiftsTable
    /\ nextId' = IF ok /\ pending[s].kind = "insert" THEN nextId + 1 ELSE nextId
    /\ insErr' = [insErr EXCEPT ![s] = ~ok]
    /\ genHist' = IF ok THEN <<>> ELSE genHist
    /\ IF profile = "fixed" /\ ~ok
       THEN /\ message' = [message EXCEPT ![s] = Msg("failed", 0)]
            /\ saving' = [saving EXCEPT ![s] = FALSE]
            /\ pc' = [pc EXCEPT ![s] = "man_done"]
            /\ UNCHANGED editingShift
       ELSE /\ message' = [message EXCEPT ![s] =
                              IF profile = "fixed" THEN Msg("saved", 0) ELSE @]
            /\ editingShift' = [editingShift EXCEPT ![s] =
                                   IF profile = "fixed" /\ pending[s].kind = "insert"
                                   THEN @ ELSE NoShift]
            /\ pc' = [pc EXCEPT ![s] = "man_fetch"]
            /\ UNCHANGED saving
    /\ UNCHANGED <<callVars, op, profile, users, shift_patterns, leave_requests, live, budget,
                   selectedMonth, loading, staff, shiftPatterns, leaveRequests, shifts,
                   generating, generatedShifts, delErr, fetchErr, editFormData,
                   warnings, pending, ops>>

-----------------------------------------------------------------------------
(* Specifications *)

Next ==
    \/ \E s \in Sessions, failed \in ReadFailures : LoadView(s, failed)
    \/ \E l \in NewLeave : submitLeaveRequest(l)
    \/ \E s \in Sessions : GenStart(s)
    \/ \E s \in Sessions, ok \in BOOLEAN : GenDelete(s, ok)
    \/ \E s \in Sessions, ok \in BOOLEAN : GenInsert(s, ok)
    \/ \E s \in Sessions, ok \in BOOLEAN : Refetch(s, ok)
    \/ \E s \in Sessions : Return(s)
    \/ \E s \in Sessions : \E sh \in shifts[s] : handleEventClick(s, sh)
    \/ \E s \in Sessions : \E value \in EditUsers : ChangeField(s, "user_id", value)
    \/ \E s \in Sessions : \E value \in EditPatterns :
          ChangeField(s, "pattern_id", value)
    \/ \E s \in Sessions, value \in ClickDates : ChangeField(s, "shift_date", value)
    \/ \E s \in Sessions, date \in ClickDates : handleDateClick(s, date)
    \/ \E s \in Sessions : saveShift(s)
    \/ \E s \in Sessions : deleteShift(s)
    \/ \E s \in Sessions, ok \in BOOLEAN : ManWrite(s, ok)

Spec == Init /\ [][Next]_vars

SpecConc == InitConc /\ [][Next]_vars

\* the store answers a call the session is awaiting: the promise of the
\* supabase client settles
StoreAnswers(s) ==
    \E ok \in BOOLEAN :
        GenDelete(s, ok) \/ GenInsert(s, ok) \/ Refetch(s, ok) \/ ManWrite(s, ok)

\* One session of part_003; every awaited store call is answered, with a
\* result or with an error.
InitLive == Init /\ profile = "fixed"

SpecLive == InitLive /\ [][Next]_vars /\ \A s \in Sessions : WF_vars(StoreAnswers(s))

-----------------------------------------------------------------------------
(* Direct calls of the Constraint Checker (part_003 checkConstraints) *)

viewVars == <<profile, users, shift_patterns, leave_requests, shiftsTable, nextId,
              live, selectedMonth, loading, staff, shiftPatterns, leaveRequests,
              shifts, pc, generating, saving, message, generatedShifts, delErr,
              insErr, fetchErr, editingShift, editFormData, warnings, pending,
              genHist, ops, budget, op>>

\* The day N the assignments of a call lie around: mid-month, first of a
\* month, and the two days of 2025 next to a change of the New York clock.
CheckBases == {20250610, 20250301, 20250309, 20251103}

CheckUsers == {"w1", "w2"}

\* Assignments the view may hold at a call: w1 on N-2, N-1 (up to twice), N,
\* N+1 and N+3, three other workers on N.
CheckRows(N) ==
    { [id |-> 1, user_id |-> "w1", shift_date |-> PrevDay(N), pattern_id |-> "E"],
      [id |-> 2, user_id |-> "w1", shift_date |-> NextDay(N), pattern_id |-> "E"],
      [id |-> 3, user_id |-> "w1", shift_date |-> N, pattern_id |-> "E"],
      [id |-> 4, user_id |-> "w2", shift_date |-> N, pattern_id |-> "P1"],
      [id |-> 5, user_id |-> "w3", shift_date |-> N, pattern_id |-> "L"],
      [id |-> 6, user_id |-> "w1", shift_date |-> NextDay(NextDay(NextDay(N))),
       pattern_id |-> "E"],
      [id |-> 7, user_id |-> "w1", shift_date |-> PrevDay(PrevDay(N)),
       pattern_id |-> "E"],
      [id |-> 8, user_id |-> "w4", shift_date |-> N, pattern_id |-> "P2"],
      [id |-> 9, user_id |-> "w1", shift_date |-> PrevDay(N), pattern_id |-> "L"] }

CheckLeaveSets(N) == { {}, {[user_id |-> "w1", request_date |-> N]} }

\* candidate dates of a call: N and N+2
CheckDates(N) == {N, NextDay(NextDay(N))}

\* excludeShiftId: undefined (0) or the id of an assignment
CheckExcludes == {0} \cup {r.id : r \in CheckRows(20250610)}

InitCheck ==
    /\ InitView
    /\ profile = "fixed"
    /\ live = {}
    /\ budget = 0
    /\ tz \in TimeZones
    /\ plan = NoPlan
    /\ agg = NoAgg
    /\ \E N \in CheckBases : \E lv \in CheckLeaveSets(N) :
          chk = [NoCheck EXCEPT !.phase = "build", !.base = N, !.lv = lv]

\* the view holds one more assignment
AddAssignment(r) ==
    /\ chk.phase = "build"
    /\ r \in CheckRows(chk.base) \ chk.sh
    /\ chk' = [chk EXCEPT !.sh = @ \cup {r}]
    /\ UNCHANGED <<viewVars, tz, plan, agg>>

\* checkConstraints(date, userId, patternId, excludeShiftId) is called
Check(date, userId, excludeShiftId) ==
    /\ chk.phase = "build"
    /\ date \in CheckDates(chk.base)
    /\ chk' = [chk EXCEPT !.phase = "done", !.date = date, !.userId = userId,
                          !.excludeShiftId = excludeShiftId,
                          !.out = checkConstraintsFixed(tz, date, userId,
                                      excludeShiftId, chk.lv, chk.sh)]
    /\ UNCHANGED <<viewVars, tz, plan, agg>>

\* checkConstraints(userId, date, _patternId) of part_002 is called
CheckRun(userId, date) ==
    /\ chk.phase = "build"
    /\ date \in CheckDates(chk.base)
    /\ chk' = [chk EXCEPT !.phase = "run", !.date = date, !.userId = userId,
                          !.out = checkConstraintsRun(tz, userId, date,
                                                      chk.lv, chk.sh)]
    /\ UNCHANGED <<viewVars, tz, plan, agg>>

NextCheck ==
    \/ \E N \in CheckBases : \E r \in CheckRows(N) : AddAssignment(r)
    \/ \E N \in CheckBases : \E date \in CheckDates(N) :
          \E userId \in CheckUsers : CheckRun(userId, date)
    \/ \E N \in CheckBases : \E date \in CheckDates(N) :
          \E userId \in CheckUsers, excludeShiftId \in CheckExcludes :
             Check(date, userId, excludeShiftId)

SpecCheck == InitCheck /\ [][NextCheck]_vars

-----------------------------------------------------------------------------
(* Direct calls of the Assignment Planner (part_002, body of the day loop) *)

MaxLeave == 2        \* leave requests on the planned date

PlanMonths == {202506}

Roster5F == << [id |-> "w1", role |-> "fulltime"], [id |-> "w2", role |-> "fulltime"],
               [id |-> "w3", role |-> "fulltime"], [id |-> "w4", role |-> "fulltime"],
               [id |-> "w5", role |-> "fulltime"] >>

RosterMixed == << [id |-> "w1", role |-> "parttime"], [id |-> "w2", role |-> "fulltime"],
                  [id |-> "w3", role |-> "parttime"], [id |-> "w4", role |-> "fulltime"],
                  [id |-> "w5", role |-> "fulltime"] >>

PlanRosters == {Roster5F, RosterMixed, Roster3}

\* the catalog, complete, without one of the named patterns, with the two
\* full-time patterns only, and empty
PlanCatalogs ==
    { Catalog4, <<>>, SubSeq(Catalog4, 1, 2), SubSeq(Catalog4, 2, 4),
      SubSeq(Catalog4, 1, 3), <<Catalog4[1], Catalog4[3], Catalog4[4]>>,
      <<Catalog4[1], Catalog4[2], Catalog4[4]>> }

InitPlan ==
    /\ InitView
    /\ profile = "weekday"
    /\ live = {}
    /\ budget = 0
    /\ tz \in SessionTimeZones
    /\ chk = NoCheck
    /\ agg = NoAgg
    /\ \E ym \in PlanMonths : \E day \in 1..daysInMonth(ym) :
          \E st \in PlanRosters, pats \in PlanCatalogs :
             plan = [NoPlan EXCEPT !.phase = "build", !.ym = ym, !.day = day,
                                   !.st = st, !.pats = pats]

\* a worker of the roster has a leave request on the planned date, or on the
\* day after it
AddLeave(w, d) ==
    /\ plan.phase = "build"
    /\ w \in Ids(plan.st)
    /\ d \in {DateStr(plan.ym, plan.day), DateStr(plan.ym, plan.day) + 1}
    /\ Cardinality(plan.lv) < MaxLeave
    /\ [user_id |-> w, request_date |-> d] \notin plan.lv
    /\ plan' = [plan EXCEPT !.lv = @ \cup {[user_id |-> w, request_date |-> d]}]
    /\ UNCHANGED <<viewVars, tz, chk, agg>>

\* availableStaff after the sort; the loop body is left before on a Sunday
PlanPool ==
    IF getDay(plan.ym, plan.day) = 0 THEN <<>>
    ELSE SortFullTimeFirst(availableStaff(plan.st, plan.lv,
                                          DateStr(plan.ym, plan.day)))

\* the body of the day loop runs for the date
PlanCall ==
    /\ plan.phase = "build"
    /\ plan' = [plan EXCEPT
          !.phase = "done",
          !.pool = PlanPool,
          !.sel = SubSeq(PlanPool, 1, shiftsPerDay(getDay(plan.ym, plan.day), PlanPool)),
          !.out = PlanDayWeekday(plan.ym, plan.day, plan.st, plan.pats, plan.lv)]
    /\ UNCHANGED <<viewVars, tz, chk, agg>>

NextPlan ==
    \/ \E w \in Ids(Roster5F), ym \in PlanMonths : \E day \in 1..daysInMonth(ym) + 1 :
          AddLeave(w, DateStr(ym, day))
    \/ PlanCall

SpecPlan == InitPlan /\ [][NextPlan]_vars

-----------------------------------------------------------------------------
(* Direct calls of the day loop of generateShifts of part_003 *)

\* generateShifts runs its loop with a catalog that is not empty
FixedCatalogs == {pats \in PlanCatalogs : Len(pats) > 0} \cup {<<Catalog4[1]>>}

InitPlanFixed ==
    /\ InitView
    /\ profile = "fixed"
    /\ live = {}
    /\ budget = 0
    /\ tz \in SessionTimeZones
    /\ chk = NoCheck
    /\ agg = NoAgg
    /\ \E ym \in PlanMonths : \E day \in 1..daysInMonth(ym) :
          \E st \in PlanRosters, pats \in FixedCatalogs :
             plan = [NoPlan EXCEPT !.phase = "build", !.ym = ym, !.day = day,
                                   !.st = st, !.pats = pats]

\* the body of the day loop of part_003 runs for the date
PlanCallFixed ==
    /\ plan.phase = "build"
    /\ LET date == DateStr(plan.ym, plan.day)
           av == availableStaff(plan.st, plan.lv, date)
       IN plan' = [plan EXCEPT
             !.phase = "done",
             !.pool = av,
             !.sel = SubSeq(av, 1, Min(FixedHeadcount, Len(av))),
             !.out = PlanDayFixed(date, plan.st, plan.pats, plan.lv)]
    /\ UNCHANGED <<viewVars, tz, chk, agg>>

NextPlanFixed ==
    \/ \E w \in Ids(Roster5F), ym \in PlanMonths : \E day \in 1..daysInMonth(ym) + 1 :
          AddLeave(w, DateStr(ym, day))
    \/ PlanCallFixed

SpecPlanFixed == InitPlanFixed /\ [][NextPlanFixed]_vars

-----------------------------------------------------------------------------
(* generateShifts of part_003 on a store without workers, without patterns, or
   with every worker on leave on every day of the month *)

\* every worker of the roster has a leave request on every day of June 2025
AllOnLeave ==
    { [user_id |-> w, request_date |-> DateStr(202506, day)] :
         w \in Ids(Roster3), day \in 1..daysInMonth(202506) }

InitGen ==
    /\ InitComponents
    /\ profile = "fixed"
    /\ users \in {<<>>, Roster3}
    /\ shift_patterns \in {<<>>, Catalog4}
    /\ leave_requests \in InitLeaveSets \cup {AllOnLeave}
    /\ shiftsTable \in InitShiftSets
    /\ nextId = MaxInitId(shiftsTable) + 1
    /\ live = {1}
    /\ budget = MaxOps
    /\ tz \in SessionTimeZones
    /\ chk = NoCheck
    /\ plan = NoPlan
    /\ agg = NoAgg

\* the view is loaded and the user presses the generate button
NextGen ==
    \/ \E s \in Sessions, failed \in ReadFailures : LoadView(s, failed)
    \/ \E s \in Sessions : GenStart(s)
    \/ \E s \in Sessions, ok \in BOOLEAN : GenDelete(s, ok)
    \/ \E s \in Sessions, ok \in BOOLEAN : GenInsert(s, ok)
    \/ \E s \in Sessions, ok \in BOOLEAN : Refetch(s, ok)
    \/ \E s \in Sessions : Return(s)

SpecGen == InitGen /\ [][NextGen]_vars

-----------------------------------------------------------------------------
(* Calls of the Constraint Checker from the loaded view (part_003): the
   Checker reads the component's shifts state, which fetchShiftsForMonth fills *)

\* Stored assignments of w1 around the two ends of June 2025.
EdgeRows ==
    { [id |-> 1, user_id |-> "w1", shift_date |-> 20250531, pattern_id |-> "E"],
      [id |-> 2, user_id |-> "w1", shift_date |-> 20250601, pattern_id |-> "E"],
      [id |-> 3, user_id |-> "w1", shift_date |-> 20250602, pattern_id |-> "E"],
      [id |-> 4, user_id |-> "w1", shift_date |-> 20250629, pattern_id |-> "E"],
      [id |-> 5, user_id |-> "w1", shift_date |-> 20250630, pattern_id |-> "E"],
      [id |-> 6, user_id |-> "w1", shift_date |-> 20250701, pattern_id |-> "E"] }

\* candidate dates: the first and the last day of the month shown
EdgeDates == {20250601, 20250630}

EdgeExcludes == {0, 2, 5}

InitEdge ==
    /\ InitSessions
    /\ shiftsTable \in SUBSET EdgeRows
    /\ nextId = 7
    /\ profile = "fixed"
    /\ live = {1}
    /\ budget = 0
    /\ tz \in SessionTimeZones
    /\ chk = NoCheck
    /\ plan = NoPlan
    /\ agg = NoAgg

\* checkConstraints(date, userId, patternId, excludeShiftId) is called in the
\* rendered view (handleEventClick, the onChange handlers of the edit form)
CheckInView(s, date, userId, excludeShiftId) ==
    /\ Rendered(s)
    /\ chk.phase = "off"
    /\ chk' = [chk EXCEPT !.phase = "done", !.lv = leaveRequests[s],
                          !.sh = shifts[s], !.date = date, !.userId = userId,
                          !.excludeShiftId = excludeShiftId,
                          !.out = checkConstraintsFixed(tz, date, userId,
                                      excludeShiftId, leaveRequests[s], shifts[s])]
    /\ UNCHANGED <<viewVars, tz, plan, agg>>

NextEdge ==
    \/ \E s \in Sessions, failed \in ReadFailures : LoadView(s, failed)
    \/ \E s \in Sessions, date \in EdgeDates, excludeShiftId \in EdgeExcludes :
          CheckInView(s, date, "w1", excludeShiftId)

SpecEdge == InitEdge /\ [][NextEdge]_vars

-----------------------------------------------------------------------------
(* Workload Aggregator: calculateMonthlyHours and generateStatsData (part_003) *)

MaxAggRows == 4      \* assignments in the view at a call of the aggregator

\* shiftPatterns.find(p => p.id === shift.pattern_id), as a sequence of 0 or 1
patternOf(pats, id) ==
    LET Same(x) == x.id = id
    IN IF SelectSeq(pats, Same) = <<>> THEN <<>> ELSE <<SelectSeq(pats, Same)[1]>>

\* pattern ? pattern.working_hours : 0
hoursOf(pats, sh) ==
    IF patternOf(pats, sh.pattern_id) = <<>> THEN 0
    ELSE patternOf(pats, sh.pattern_id)[1].working_hours

RECURSIVE totalHours(_, _)
\* memberShifts.reduce((sum, shift) => sum + hours of the shift's pattern, 0)
totalHours(rows, pats) ==
    IF rows = {} THEN 0
    ELSE LET r == CHOOSE x \in rows : TRUE
         IN hoursOf(pats, r) + totalHours(rows \ {r}, pats)

\* shifts.filter(shift => shift.user_id === member.id)
memberShifts(sh, id) == {x \in sh : x.user_id = id}

\* mutant: the quotient is cut after the first decimal
avgHours_Truncated(total, workDays) ==
    IF workDays > 0 THEN (10 * total) \div workDays ELSE 0

\* workDays > 0 ? (totalHours / workDays).toFixed(1) : '0'
\* The decimal string is written as its number of tenths.  toFixed(1) takes
\* the nearest tenth and the larger one of two equally near; for less than 20
\* days a quotient half-way between two tenths is a multiple of 1/4, which a
\* double holds exactly.
avgHours(total, workDays) ==
    IF workDays > 0 THEN (20 * total + workDays) \div (2 * workDays) ELSE 0

\* generateStatsData: one row per member of staff, in roster order
generateStatsData(st, sh, pats) ==
    [i \in 1..Len(st) |->
        LET rows == memberShifts(sh, st[i].id)
        IN [user_id |-> st[i].id,
            workDays |-> Cardinality(rows),
            totalHours |-> totalHours(rows, pats),
            avgHours |-> avgHours(totalHours(rows, pats), Cardinality(rows))]]

\* calculateMonthlyHours: the entries of the Map staffHours; a shift whose
\* pattern is not found sets no entry
calculateMonthlyHours(sh, pats) ==
    LET found == {x \in sh : patternOf(pats, x.pattern_id) # <<>> /\ x.user_id # ""}
    IN { [user_id |-> u, hours |-> totalHours(memberShifts(found, u), pats)] :
            u \in {x.user_id : x \in found} }

\* Assignments the view may hold at a call: of two workers of the roster and
\* of a worker who is not in the roster.
AggRows ==
    { [id |-> 1, user_id |-> "w1", shift_date |-> 20250602, pattern_id |-> "E"],
      [id |-> 2, user_id |-> "w1", shift_date |-> 20250603, pattern_id |-> "P1"],
      [id |-> 3, user_id |-> "w1", shift_date |-> 20250604, pattern_id |-> "P2"],
      [id |-> 4, user_id |-> "w1", shift_date |-> 20250605, pattern_id |-> "L"],
      [id |-> 5, user_id |-> "w2", shift_date |-> 20250602, pattern_id |-> "P1"],
      [id |-> 6, user_id |-> "w2", shift_date |-> 20250603, pattern_id |-> "E"],
      [id |-> 7, user_id |-> "w9", shift_date |-> 20250602, pattern_id |-> "E"] }

\* the whole catalog, or the catalog without the two part-time patterns
AggCatalogs == {Catalog4, SubSeq(Catalog4, 1, 2)}

InitAgg ==
    /\ InitView
    /\ profile = "fixed"
    /\ live = {}
    /\ budget = 0
    /\ tz \in SessionTimeZones
    /\ chk = NoCheck
    /\ plan = NoPlan
    /\ \E pats \in AggCatalogs :
          agg = [NoAgg EXCEPT !.phase = "build", !.st = Roster3, !.pats = pats]

\* the view holds one more assignment
AddAggRow(r) ==
    /\ agg.phase = "build"
    /\ r \in AggRows \ agg.sh
    /\ Cardinality(agg.sh) < MaxAggRows
    /\ agg' = [agg EXCEPT !.sh = @ \cup {r}]
    /\ UNCHANGED <<viewVars, tz, chk, plan>>

\* the view is rendered or exported: both aggregations run
Summarize ==
    /\ agg.phase = "build"
    /\ agg' = [agg EXCEPT !.phase = "done",
                          !.hours = calculateMonthlyHours(agg.sh, agg.pats),
                          !.stats = generateStatsData(agg.st, agg.sh, agg.pats)]
    /\ UNCHANGED <<viewVars, tz, chk, plan>>

NextAgg ==
    \/ \E r \in AggRows : AddAggRow(r)
    \/ Summarize

SpecAgg == InitAgg /\ [][NextAgg]_vars

-----------------------------------------------------------------------------
(* Properties *)

\* the running generation of session s has planned its drafts
Planned(s) == pc[s] \in {"gen_insert", "gen_fetch", "gen_done"}

\* the running generation of session s has made its last store write
Written(s) == pc[s] \in {"gen_fetch", "gen_done"}

Draft(r) == [user_id |-> r.user_id, shift_date |-> r.shift_date,
             pattern_id |-> r.pattern_id]

\* the rows the bulk-insert of the running generation of s created: the fresh
\* ids handed out last
InsertedId(s, i) == nextId - Len(generatedShifts[s]) + i - 1

\* the candidate of the last check (see C10)
CurrentFormDate(s) == IF pc[s] = "man_write" THEN pending[s].shift_date
                      ELSE editFormData[s].shift_date
CurrentFormUser(s) == IF pc[s] = "man_write" THEN pending[s].user_id
                      ELSE editFormData[s].user_id

HasLeaveWarning(ws) == \E i \in 1..Len(ws) : ws[i].kind = "leave"

C2_MonthReplaced ==
    \A s \in Sessions : (Written(s) /\ ~delErr[s] /\ ~insErr[s]) =>
        LET rows == MonthRows(shiftsTable, selectedMonth[s])
            d == generatedShifts[s]
        IN /\ Cardinality(rows) = Len(d)
           /\ \A i \in 1..Len(d) :
                 [id |-> InsertedId(s, i), user_id |-> d[i].user_id,
                  shift_date |-> d[i].shift_date,
                  pattern_id |-> d[i].pattern_id] \in rows

\* a successful run has replaced a month of which the view still shows (its
\* refetch failed) an earlier assignment that is no longer stored
C2_Witness ==
    \E s \in Sessions :
        /\ pc[s] = "gen_done" /\ ~delErr[s] /\ ~insErr[s] /\ fetchErr[s]
        /\ Len(generatedShifts[s]) > 0
        /\ \E r \in shifts[s] : /\ MonthOfDate(r.shift_date) = selectedMonth[s]
                                 /\ r \notin shiftsTable

\* C3: when the range-delete succeeded and the bulk-insert failed, the month
\* is left with no stored assignment.
C3_NoRollback ==
    \A s \in Sessions : (Written(s) /\ ~delErr[s] /\ insErr[s]) =>
        MonthRows(shiftsTable, selectedMonth[s]) = {}

\* the insert failed after the delete removed assignments the view had loaded
C3_Witness ==
    \E s \in Sessions :
        /\ Written(s) /\ ~delErr[s] /\ insErr[s]
        /\ \E r \in shifts[s] : MonthOfDate(r.shift_date) = selectedMonth[s]
        /\ MonthRows(shiftsTable, selectedMonth[s]) = {}

\* C4: whenever the range-delete or the bulk-insert of a generation failed,
\* the generation ends with the failure notification.
C4_FailurePropagated ==
    \A s \in Sessions :
        (pc[s] = "gen_done" /\ (delErr[s] \/ insErr[s])) => message[s].kind = "failed"

\* C5: the bulk-insert of a generation adds its drafts to whatever the month
\* holds at that moment, the rows of a concurrent run included: nothing is
\* replaced, merged or refused.
C5_InsertAddsToMonth ==
    [][ \A s \in Sessions :
          (pc[s] = "gen_insert" /\ pc'[s] # "gen_insert" /\ ~insErr'[s]) =>
             Cardinality(MonthRows(shiftsTable', selectedMonth[s]))
               = Cardinality(MonthRows(shiftsTable, selectedMonth[s]))
                 + Len(generatedShifts[s]) ]_vars

\* both sessions have finished a generation of the same month without a store
\* failure, and the month holds the drafts of both: duplicate (worker, date)
C5_Witness ==
    /\ pc[1] = "gen_done" /\ pc[2] = "gen_done"
    /\ selectedMonth[1] = selectedMonth[2]
    /\ \A s \in Sessions : ~delErr[s] /\ ~insErr[s] /\ Len(generatedShifts[s]) > 0
    /\ Cardinality(MonthRows(shiftsTable, selectedMonth[1]))
         = Len(generatedShifts[1]) + Len(generatedShifts[2])
    /\ \E r1, r2 \in shiftsTable :
          r1.id # r2.id /\ r1.user_id = r2.user_id /\ r1.shift_date = r2.shift_date

\* C6: there is at most one stored assignment per (worker id, date).
C6_OnePerWorkerDate ==
    \A r1, r2 \in shiftsTable :
        (r1.user_id = r2.user_id /\ r1.shift_date = r2.shift_date) => r1 = r2

\* C7: two fully successful generations of the same month in succession,
\* planned from the same roster, catalog and leave requests, leave the same
\* number of assignments in the month.
C7_SameCountTwice ==
    (/\ Len(genHist) = 2
     /\ genHist[1].month = genHist[2].month
     /\ genHist[1].staff = genHist[2].staff
     /\ genHist[1].patterns = genHist[2].patterns
     /\ genHist[1].leave = genHist[2].leave)
    => genHist[1].count = genHist[2].count

C7_Witness ==
    /\ Len(genHist) = 2
    /\ genHist[1].month = genHist[2].month
    /\ genHist[1].staff = genHist[2].staff
    /\ genHist[1].patterns = genHist[2].patterns
    /\ genHist[1].leave = genHist[2].leave
    /\ genHist[2].count > 0

\* C8: after a generation whose insert and read-back succeeded, the view
\* holds, for every draft, exactly one assignment created by the insert, with
\* the draft's worker, date and pattern; it holds no other created assignment.
C8_RoundTrip ==
    \A s \in Sessions :
        (pc[s] = "gen_done" /\ ~insErr[s] /\ ~fetchErr[s]
           /\ Len(generatedShifts[s]) > 0) =>
        LET d == generatedShifts[s] IN
        /\ \A i \in 1..Len(d) :
              LET back == {r \in shifts[s] : r.id = InsertedId(s, i)}
              IN Cardinality(back) = 1 /\ \A r \in back : Draft(r) = d[i]
        /\ Cardinality({r \in shifts[s] : r.id >= InsertedId(s, 1)}) = Len(d)

C8_Witness ==
    \E s \in Sessions :
        /\ pc[s] = "gen_done" /\ ~insErr[s] /\ ~fetchErr[s]
        /\ Len(generatedShifts[s]) > 0
        /\ \E r \in shifts[s] : r.id = InsertedId(s, Len(generatedShifts[s]))

\* C9: when a generation is invoked from a loaded view, the leave requests it
\* plans against contain every leave request that is in the store.
C9_PlansAgainstStore ==
    [][ \A s \in Sessions :
          (pc[s] = "idle" /\ pc'[s] = "gen_delete" /\ ~loading[s]) =>
             leave_requests \subseteq leaveRequests'[s] ]_vars

\* C10: the warning list of a check holds the leave-conflict warning exactly
\* when a leave request has the candidate's worker id and date.  The candidate
\* of the last check is the edit form while the modal is open (part_003) and
\* the row being written by saveShift (part_002).
C10_LeaveWarningIff ==
    \A s \in Sessions :
        /\ (profile = "fixed" /\ editingShift[s] # NoShift) =>
              (HasLeaveWarning(warnings[s]) <=>
                 \E l \in leaveRequests[s] :
                    /\ l.user_id = editFormData[s].user_id
                    /\ l.request_date = editFormData[s].shift_date)
        /\ (profile = "weekday" /\ pc[s] = "man_write"
               /\ pending[s].kind \in {"insert", "update"}) =>
              (HasLeaveWarning(warnings[s]) <=>
                 \E l \in leaveRequests[s] :
                    /\ l.user_id = pending[s].user_id
                    /\ l.request_date = pending[s].shift_date)

\* a check has produced the leave-conflict warning for a worker on leave, and
\* the same day has another worker's assignment
C10_Witness ==
    \E s \in Sessions :
        /\ HasLeaveWarning(warnings[s])
        /\ \/ profile = "fixed" /\ editingShift[s] # NoShift
           \/ profile = "weekday" /\ pc[s] = "man_write"
        /\ \E r \in shifts[s] :
              /\ r.shift_date = CurrentFormDate(s)
              /\ r.user_id # CurrentFormUser(s)

HasWarning(ws, kind) == \E i \in 1..Len(ws) : ws[i].kind = kind

\* the assignments of the call other than the excluded one
OthersOn(d) == {r \in chk.sh : r.shift_date = d /\ r.id # chk.excludeShiftId}

\* C11: a call of the Checker (part_003) yields the headcount warning exactly
\* when at least 3 assignments other than the excluded one are on the
\* candidate's date.
C11_HeadcountIff ==
    chk.phase = "done" =>
        (HasWarning(chk.out, "headcount") <=> Cardinality(OthersOn(chk.date)) >= 3)

\* one of exactly 3 assignments of a day is edited in place: no headcount warning
C11_Witness ==
    /\ chk.phase = "done"
    /\ Cardinality({r \in chk.sh : r.shift_date = chk.date}) = 3
    /\ \E r \in chk.sh : r.shift_date = chk.date /\ r.id = chk.excludeShiftId
    /\ ~HasWarning(chk.out, "headcount")

\* C12: a call of the Checker (part_003) yields the consecutive-run warning
\* exactly when the candidate's worker has an assignment other than the
\* excluded one on the calendar day before the candidate date and one on the
\* calendar day after it.
C12_ConsecutiveIff ==
    chk.phase = "done" =>
        (HasWarning(chk.out, "consecutive") <=>
            /\ \E r \in OthersOn(PrevDay(chk.date)) : r.user_id = chk.userId
            /\ \E r \in OthersOn(NextDay(chk.date)) : r.user_id = chk.userId)

WarningOrder == <<"leave", "headcount", "consecutive">>

\* 1-based position of a warning kind in the order of the rules
Rank(kind) == CHOOSE i \in 1..Len(WarningOrder) : WarningOrder[i] = kind

Kinds(ws) == {ws[i].kind : i \in 1..Len(ws)}

\* every subset of the three warnings is the result of some call
EverySubsetProducible ==
    \A S \in SUBSET Kinds([i \in 1..3 |-> [kind |-> WarningOrder[i]]]) :
        \E sh \in SUBSET CheckRows(chk.base), lv \in CheckLeaveSets(chk.base),
           userId \in CheckUsers, excludeShiftId \in CheckExcludes :
            Kinds(checkConstraintsFixed(tz, chk.base, userId, excludeShiftId,
                                        lv, sh)) = S

\* C13: the warning list of a call of the Checker (part_003) holds only the
\* three warnings, in the order leave, headcount, consecutive and each at most
\* once; and each of the 8 subsets is the result of some call (this part does
\* not depend on the state: it is evaluated where the view holds no assignment
\* yet, in a runtime without daylight time).
C13_OrderedWarnings ==
    /\ chk.phase = "done" =>
          /\ \A i \in 1..Len(chk.out) : chk.out[i].kind \in Kinds([j \in 1..3 |->
                                               [kind |-> WarningOrder[j]]])
          /\ \A i, j \in 1..Len(chk.out) :
                i < j => Rank(chk.out[i].kind) < Rank(chk.out[j].kind)
    /\ (chk.phase = "build" /\ chk.sh = {} /\ tz.dstEnd = 0) => EverySubsetProducible

\* a call has produced all three warnings
C13_Witness ==
    /\ chk.phase = "done"
    /\ Len(chk.out) = 3
    /\ chk.out[1].kind = "leave" /\ chk.out[2].kind = "headcount"
    /\ chk.out[3].kind = "consecutive"

\* the handlers that save one assignment: updateShift and addNewShift of
\* part_003, saveShift of part_002
SaveHandlers == {"updateShift", "addNewShift", "saveShift"}

\* C14: every invocation of a manual save (insert or update) has issued its
\* store write, whatever warnings the Checker has for the values saved.
C14_WarningsNeverBlock ==
    \A s \in Sessions :
        op[s].name \in SaveHandlers =>
            /\ pc[s] \in {"man_write", "man_fetch", "man_done"}
            /\ pending[s].kind \in {"insert", "update"}

\* the write of a save is in flight to the store for a form the Checker warns
\* about, the warning being displayed
C14_Witness ==
    \E s \in live :
        /\ pc[s] = "man_write"
        /\ pending[s].kind \in {"insert", "update"}
        /\ warnings[s] # <<>>
        /\ HasLeaveWarning(checkConstraints(profile, tz, pending[s].shift_date,
               pending[s].user_id, pending[s].id, leaveRequests[s], shifts[s]))

\* C15: whenever the write of a manual add or edit has been issued, the
\* handler that issued it has passed exactly the worker, date and pattern of
\* the write to the Checker.
C15_CheckedBeforeWrite ==
    \A s \in Sessions :
        (op[s].name \in SaveHandlers /\ pending[s].kind \in {"insert", "update"}) =>
            op[s].checked = [user_id |-> pending[s].user_id,
                             pattern_id |-> pending[s].pattern_id,
                             shift_date |-> pending[s].shift_date]

\* The calendar of June 2025: the 1st is a Sunday.
JuneSundays == {1, 8, 15, 22, 29}
JuneWednesdays == {4, 11, 18, 25}

PlanDate == DateStr(plan.ym, plan.day)

\* the workers of the roster of the call without a leave request on the date
PlanAvailableIds ==
    {plan.st[i].id : i \in {j \in 1..Len(plan.st) :
        ~\E l \in plan.lv : l.user_id = plan.st[j].id /\ l.request_date = PlanDate}}

\* position of a worker in the roster of the call
RosterIndex(id) == CHOOSE i \in 1..Len(plan.st) : plan.st[i].id = id

PatternNames(pats) == {pats[i].pattern_name : i \in 1..Len(pats)}

\* a weekday call of June 2025 has run
PlannedWeekday ==
    plan.phase = "done" /\ plan.ym = 202506 /\ plan.day \notin JuneSundays

\* C16: on a day other than Sunday the weekday Planner selects min(target,
\* available) workers, target being 3 on Wednesday and 4 on the other days;
\* it produces at most that many drafts, and exactly that many when the four
\* named patterns are in the catalog.
C16_HeadcountByWeekday ==
    PlannedWeekday =>
        LET target == IF plan.day \in JuneWednesdays THEN 3 ELSE 4
            n == IF target <= Cardinality(PlanAvailableIds) THEN target
                 ELSE Cardinality(PlanAvailableIds)
        IN /\ Len(plan.sel) = n
           /\ Len(plan.out) <= n
           /\ {"early", "late", "part1", "part2"} \subseteq PatternNames(plan.pats)
                 => Len(plan.out) = n

\* a Wednesday with more than 3 available workers and the whole catalog
C16_Witness ==
    /\ PlannedWeekday
    /\ plan.day \in JuneWednesdays
    /\ Cardinality(PlanAvailableIds) > 3
    /\ Len(plan.pats) = 4
    /\ Len(plan.out) = 3

\* C17: the weekday Planner produces no draft for a Sunday.
C17_NoSundayDrafts ==
    (plan.phase = "done" /\ plan.ym = 202506) =>
        /\ plan.day \in JuneSundays => plan.out = <<>>
        /\ \A i \in 1..Len(plan.out) :
              plan.out[i].shift_date % 100 \notin JuneSundays

\* a Sunday with available workers and the whole catalog
C17_Witness ==
    /\ plan.phase = "done" /\ plan.ym = 202506
    /\ plan.day \in JuneSundays
    /\ Cardinality(PlanAvailableIds) >= 3
    /\ Len(plan.pats) = 4
    /\ plan.out = <<>>

IsFullTime(w) == w.role = "fulltime"

\* C18: the pool of a weekday call holds the available workers, every
\* full-time worker ahead of every other worker, the roster order kept within
\* each group; the selection is a prefix of the pool, so a worker who is not
\* full-time is selected only if every available full-time worker is.
C18_FullTimeFirst ==
    PlannedWeekday =>
        /\ {plan.pool[i].id : i \in 1..Len(plan.pool)} = PlanAvailableIds
        /\ Len(plan.pool) = Cardinality(PlanAvailableIds)
        /\ \A i, j \in 1..Len(plan.pool) :
              i < j =>
                /\ ~(~IsFullTime(plan.pool[i]) /\ IsFullTime(plan.pool[j]))
                /\ (IsFullTime(plan.pool[i]) <=> IsFullTime(plan.pool[j]))
                      => RosterIndex(plan.pool[i].id) < RosterIndex(plan.pool[j].id)
        /\ Len(plan.sel) <= Len(plan.pool)
        /\ \A i \in 1..Len(plan.sel) : plan.sel[i] = plan.pool[i]
        /\ (\E i \in 1..Len(plan.sel) : ~IsFullTime(plan.sel[i])) =>
              \A j \in 1..Len(plan.pool) :
                 IsFullTime(plan.pool[j]) =>
                    \E i \in 1..Len(plan.sel) : plan.sel[i] = plan.pool[j]

\* the roster lists a part-time worker first; full-time workers listed after
\* them are selected and the part-time worker is not
C18_Witness ==
    /\ PlannedWeekday
    /\ ~IsFullTime(plan.st[1])
    /\ plan.st[1].id \in PlanAvailableIds
    /\ \A i \in 1..Len(plan.sel) : plan.sel[i].id # plan.st[1].id
    /\ Len(plan.sel) = 3

\* the pattern name of the rule for the worker at 1-based position i of the
\* selection (0-based index i - 1)
RulePattern(w, i) ==
    IF IsFullTime(w) THEN (IF (i - 1) % 2 = 0 THEN "early" ELSE "late")
    ELSE (IF (i - 1) % 2 = 0 THEN "part1" ELSE "part2")

\* the drafts of the call for the worker at position i of the selection
DraftsOf(i) == {k \in 1..Len(plan.out) : plan.out[k].user_id = plan.sel[i].id}

NameOf(pats, id) == (CHOOSE x \in {pats[i] : i \in 1..Len(pats)} : x.id = id).pattern_name

\* the scenario of 5 full-time workers, no leave, the patterns early and late
FiveFullTimeScenario ==
    /\ PlannedWeekday
    /\ plan.day \notin JuneWednesdays
    /\ plan.st = Roster5F
    /\ plan.pats = SubSeq(Catalog4, 1, 2)
    /\ ~\E l \in plan.lv : l.request_date = PlanDate

\* C19: every draft of a weekday call carries the pattern named for its
\* worker's index in the selection: early at an even index and late at an odd
\* one for a full-time worker, part1 and part2 for the others.  With 5
\* full-time workers, no leave and target 4 the drafts are workers[0..3] with
\* early, late, early, late.
C19_PatternByParity ==
    /\ PlannedWeekday =>
          \A i \in 1..Len(plan.sel) : \A k \in DraftsOf(i) :
             NameOf(plan.pats, plan.out[k].pattern_id) = RulePattern(plan.sel[i], i)
    /\ FiveFullTimeScenario =>
          plan.out = << [user_id |-> "w1", shift_date |-> PlanDate, pattern_id |-> "E"],
                        [user_id |-> "w2", shift_date |-> PlanDate, pattern_id |-> "L"],
                        [user_id |-> "w3", shift_date |-> PlanDate, pattern_id |-> "E"],
                        [user_id |-> "w4", shift_date |-> PlanDate, pattern_id |-> "L"] >>

C19_Witness == FiveFullTimeScenario /\ Len(plan.out) = 4

\* C20: a selected worker has one draft when the pattern named for them is in
\* the catalog and none when it is not; the drafts are in the order of the
\* selection and none is for a worker who was not selected.
C20_MissingPatternSkips ==
    PlannedWeekday =>
        /\ \A i \in 1..Len(plan.sel) :
              Cardinality(DraftsOf(i)) =
                 IF RulePattern(plan.sel[i], i) \in PatternNames(plan.pats) THEN 1 ELSE 0
        /\ \A k \in 1..Len(plan.out) :
              /\ \E i \in 1..Len(plan.sel) : plan.out[k].user_id = plan.sel[i].id
              /\ plan.out[k].shift_date = PlanDate

\* a selected worker's pattern is missing from a catalog that is not empty,
\* another selected worker has a draft, and an available worker was not selected
C20_Witness ==
    /\ PlannedWeekday
    /\ \E i \in 1..Len(plan.sel) :
          /\ RulePattern(plan.sel[i], i) \notin PatternNames(plan.pats)
          /\ DraftsOf(i) = {}
    /\ Len(plan.out) > 0
    /\ Len(plan.sel) < Len(plan.pool)

-----------------------------------------------------------------------------
(* Workload Aggregator *)

\* the rows of a finished call of generateStatsData
StatsRows == {agg.stats[i] : i \in 1..Len(agg.stats)}

\* C21: the summary has an entry exactly for the worker ids that occur in the
\* input assignments (so none over an empty input), and the entry of a worker
\* counts that worker's assignments as days and adds up the working hours of
\* their patterns, an assignment with an unknown pattern counting one day and
\* no hours.
C21_SummarizeMapping ==
    agg.phase = "done" =>
        /\ {r.user_id : r \in StatsRows} = {x.user_id : x \in agg.sh}
        /\ \A r \in StatsRows :
              /\ r.workDays = Cardinality({x \in agg.sh : x.user_id = r.user_id})
              /\ r.totalHours =
                    totalHours({x \in agg.sh : x.user_id = r.user_id}, agg.pats)

\* C22 as stated: the reported average is the quotient totalHours / dayCount
\* itself, and 0 for no days.  (The average is held in tenths.)
C22_AverageExact ==
    agg.phase = "done" =>
        \A r \in StatsRows :
            IF r.workDays = 0 THEN r.avgHours = 0
            ELSE r.avgHours * r.workDays = 10 * r.totalHours

\* C22: the reported average is 0 for a worker without days and otherwise the
\* decimal with one fractional digit nearest to totalHours / dayCount (the
\* larger of two equally near); no division by zero occurs.
C22_AverageRounded ==
    agg.phase = "done" =>
        \A r \in StatsRows :
            IF r.workDays = 0 THEN r.avgHours = 0
            ELSE /\ 20 * r.totalHours - r.workDays < 2 * r.workDays * r.avgHours
                 /\ 2 * r.workDays * r.avgHours <= 20 * r.totalHours + r.workDays

\* a worker with 17 hours on 3 days is reported 5.7 next to a worker without days
C22_Witness ==
    /\ agg.phase = "done"
    /\ \E r \in StatsRows : r.workDays = 3 /\ r.totalHours = 17 /\ r.avgHours = 57
    /\ \E r \in StatsRows : r.workDays = 0 /\ r.avgHours = 0

-----------------------------------------------------------------------------
(* Frame of generateShifts *)

\* the step is one of generateShifts in session s: its entry, or the store
\* answering one of its calls
GenStep(s) ==
    /\ pc'[s] # pc[s]
    /\ pc'[s] = "gen_delete" \/ pc[s] \in {"gen_delete", "gen_insert", "gen_fetch"}

OutsideMonth(tbl, ym) == {r \in tbl : MonthOfDate(r.shift_date) # ym}

\* C23: no step of a generation for month m changes a stored assignment dated
\* outside m, and none changes the stored workers, shift patterns or leave
\* requests.
C23_GenerateFrame ==
    [][\A s \in Sessions : GenStep(s) =>
          /\ OutsideMonth(shiftsTable', selectedMonth[s])
                = OutsideMonth(shiftsTable, selectedMonth[s])
          /\ users' = users
          /\ shift_patterns' = shift_patterns
          /\ leave_requests' = leave_requests]_vars

\* a generation has deleted an assignment of its month and inserted its drafts
\* while an assignment of another month is stored
C23_Witness ==
    \E s \in Sessions :
        /\ pc[s] = "gen_fetch" /\ ~delErr[s] /\ ~insErr[s]
        /\ Len(generatedShifts[s]) > 0
        /\ \E r \in shifts[s] : /\ MonthOfDate(r.shift_date) = selectedMonth[s]
                                 /\ r \notin shiftsTable
        /\ OutsideMonth(shiftsTable, selectedMonth[s]) # {}

-----------------------------------------------------------------------------
(* The Checker at the ends of a month *)

StoredOn(userId, date, excludeShiftId) ==
    \E r \in shiftsTable :
        r.user_id = userId /\ r.shift_date = date /\ r.id # excludeShiftId

\* C24: a candidate on the first or on the last day of a month whose worker
\* has a stored assignment (other than the excluded one) on the calendar day
\* before and on the calendar day after gets the consecutive-run warning,
\* whichever months these two days belong to.
C24_RunAcrossMonths ==
    (/\ chk.phase = "done"
     /\ StoredOn(chk.userId, PrevDay(chk.date), chk.excludeShiftId)
     /\ StoredOn(chk.userId, NextDay(chk.date), chk.excludeShiftId))
        => HasWarning(chk.out, "consecutive")

-----------------------------------------------------------------------------
(* The number in the headcount warning *)

\* C25: when the assignments counted on the candidate's date (the excluded one
\* left out) number N >= 3, the headcount warning carries that number N.
C25_HeadcountNumber ==
    (chk.phase = "done" /\ Cardinality(OthersOn(chk.date)) >= HeadcountCeiling) =>
        \E i \in 1..Len(chk.out) :
            chk.out[i] = Warn("headcount", Cardinality(OthersOn(chk.date)))

-----------------------------------------------------------------------------
(* The run-length Checker (part_002) *)

\* the worker of the call has an assignment on day d among those read
AssignedOn(d) == \E r \in chk.sh : r.user_id = chk.userId /\ r.shift_date = d

RECURSIVE RunBefore(_, _)
\* number of consecutive calendar days immediately before d on which the
\* worker is assigned, counted up to k days back
RunBefore(d, k) ==
    IF k = 0 \/ ~AssignedOn(PrevDay(d)) THEN 0
    ELSE 1 + RunBefore(PrevDay(d), k - 1)

\* C26: the run-length Checker warns exactly when the worker has an assignment
\* on the candidate date and on each of the two calendar days before it; the
\* length it reports is 1 plus the number of consecutive assigned days before
\* the date; later days are not counted, and a candidate without an assignment
\* of its own on the date is never warned.
C26_RunLength ==
    chk.phase = "run" =>
        LET n == 1 + RunBefore(chk.date, 4)
        IN /\ HasWarning(chk.out, "run") <=> (AssignedOn(chk.date) /\ n >= 3)
           /\ \A i \in 1..Len(chk.out) :
                 chk.out[i].kind = "run" => chk.out[i].n = n

-----------------------------------------------------------------------------
(* The fixed-headcount day loop (part_003) *)

\* positions in the roster of the workers without a leave request on the date
FreePositions ==
    {i \in 1..Len(plan.st) :
        [user_id |-> plan.st[i].id, request_date |-> PlanDate] \notin plan.lv}

\* the k-th of these positions, in roster order
FreePosition(k) ==
    CHOOSE j \in FreePositions : Cardinality({i \in FreePositions : i <= j}) = k

\* C27: the fixed-headcount loop drafts, on any day of the week, exactly
\* min(2, available) assignments: the first workers in roster order without a
\* leave request on the date, the i-th of them (from 0) with the catalog
\* pattern at position i mod catalog size.
C27_FixedTwoPerDay ==
    plan.phase = "done" =>
        /\ Len(plan.out) = Min(2, Cardinality(FreePositions))
        /\ \A k \in 1..Len(plan.out) :
              /\ plan.out[k].user_id = plan.st[FreePosition(k)].id
              /\ plan.out[k].shift_date = PlanDate
              /\ plan.out[k].pattern_id
                    = plan.pats[((k - 1) % Len(plan.pats)) + 1].id

\* a Sunday on which the first worker of the roster has a leave request: the
\* second and third worker are drafted with the first two patterns
C27_Witness ==
    /\ plan.phase = "done"
    /\ getDay(plan.ym, plan.day) = 0
    /\ 1 \notin FreePositions
    /\ Len(plan.out) = 2
    /\ plan.out[1].user_id = plan.st[2].id /\ plan.out[2].user_id = plan.st[3].id
    /\ Len(plan.pats) >= 2
    /\ plan.out[1].pattern_id # plan.out[2].pattern_id

-----------------------------------------------------------------------------
(* generateShifts of part_003 with nothing to plan *)

NothingToPlanWith(s) == Len(staff[s]) = 0 \/ Len(shiftPatterns[s]) = 0

\* C28: in the fixed-headcount variant, with an empty roster or an empty
\* catalog no step of the one open view issues a store call of a generation (no
\* range-delete, no insert) or changes the stored assignments; and a
\* generation whose range-delete was carried out and whose plan has no drafts
\* issues no insert and leaves the month without stored assignments.
C28_NothingToPlan ==
    /\ [][\A s \in live : NothingToPlanWith(s) =>
              /\ pc'[s] \notin {"gen_delete", "gen_insert", "gen_fetch"}
              /\ shiftsTable' = shiftsTable]_vars
    /\ [](\A s \in live :
              /\ pc[s] = "gen_insert" => Len(generatedShifts[s]) > 0
              /\ (message[s] = Msg("nodrafts", 0) /\ ~delErr[s]) =>
                    MonthRows(shiftsTable, selectedMonth[s]) = {})

\* every worker is on leave on every day: the generation has ended without
\* drafts, and the view still shows an assignment of the month that the
\* range-delete has removed from the store
C28_Witness ==
    \E s \in Sessions :
        /\ pc[s] = "gen_done" /\ message[s] = Msg("nodrafts", 0) /\ ~delErr[s]
        /\ \A w \in Ids(staff[s]) :
              \A day \in 1..daysInMonth(selectedMonth[s]) :
                 hasLeaveRequest(leaveRequests[s], DateStr(selectedMonth[s], day), w)
        /\ \E r \in shifts[s] : MonthOfDate(r.shift_date) = selectedMonth[s]
        /\ MonthRows(shiftsTable, selectedMonth[s]) = {}

-----------------------------------------------------------------------------
(* The in-progress flags of part_003 *)

Generating(s) == pc[s] \in {"gen_delete", "gen_insert", "gen_fetch"}
Saving(s)     == pc[s] \in {"man_write", "man_fetch"}

\* C29: in part_003 the flag generating is set exactly while a generation
\* that passed its guard has not finished, and the flag saving exactly while
\* an update, delete or add has not finished; each flag that is set is reset
\* later, whether the store call succeeded or failed or there were no drafts.
C29_FlagsReset ==
    /\ [](profile = "fixed" =>
            \A s \in Sessions : /\ generating[s] <=> Generating(s)
                                /\ saving[s] <=> Saving(s))
    /\ \A s \in Sessions : /\ generating[s] ~> ~generating[s]
                           /\ saving[s] ~> ~saving[s]

\* the bulk-insert of a generation has failed and the flag is reset
C29_Witness ==
    \E s \in Sessions :
        /\ profile = "fixed" /\ pc[s] = "gen_done"
        /\ insErr[s] /\ Len(generatedShifts[s]) > 0
        /\ ~generating[s]

-----------------------------------------------------------------------------
(* The drafts of one run of generateShifts *)

DistinctIds(st) == Cardinality(Ids(st)) = Len(st)

\* the drafts have pairwise different (worker, date), dates of month ym only,
\* and come in ascending date order
WellFormedDrafts(d, ym) ==
    /\ Cardinality({<<d[i].user_id, d[i].shift_date>> : i \in 1..Len(d)}) = Len(d)
    /\ \A i \in 1..Len(d) :
          /\ MonthOfDate(d[i].shift_date) = ym
          /\ d[i].shift_date % 100 \in 1..daysInMonth(ym)
          /\ i < Len(d) => d[i].shift_date <= d[i + 1].shift_date

====
